---- MODULE Spec2Model ----
(***************************************************************************)
(* CloudAI-CLI: the llm package's DataProtector (redaction), Router        *)
(* (backend selection), Client.Answer and CostManager (daily budget),      *)
(* SelectBestAWSModel, NewClient, together with the CLI's runQuery and scan *)
(* commands (IaCProvider.Scan, CacheManager), its waitForModelAccess, and  *)
(* the training package's NewTrainingConfig and monitorTrainingJob.        *)
(*                                                                         *)
(* Go strings are TLA+ strings; a byte of a string s is SubSeq(s, i, i).   *)
(* Money is kept in units of 1/100000 dollar, so that the cost of t tokens *)
(* at a price of c cents per 1000 tokens is exactly t * c units.           *)
(***************************************************************************)
EXTENDS Integers, Sequences, FiniteSets, TLC

VARIABLES
    protector,   \* DataProtector: [replacements, nextIndex]
    text,        \* argument of the last Scrub call
    scrubbed,    \* result of the last Scrub call
    restored,    \* result of the last Unscrub call
    pc,          \* what the protector's caller did last
    clients,     \* the Clients of the process: [arch, general]
    costFile,    \* the per-user file ~/.cloudai-cost.json
    today,       \* the calendar date, time.Now().Format("2006-01-02")
    sent,        \* the requests handed to model backends so far, and the last
    call,        \* the last call and what it returned
    configModel, \* the "model:" line of ~/.cloudai.yaml ("" when there is none)
    cache,       \* the project's file .cloudai/cache.json: [state, context]
    procs,       \* concurrent invocations on one cost file: [pc, client] of each
    trainer,     \* the training command: its clock, its configs, the job it watches
    wait         \* waitForModelAccess: its attempts, its context, its result

protVars == <<protector, text, scrubbed, restored, pc>>

costVars == <<clients, costFile, today, sent, call, configModel, cache, procs,
             trainer, wait>>

vars == <<protector, text, scrubbed, restored, pc,
          clients, costFile, today, sent, call, configModel, cache, procs, trainer, wait>>

(***************************************************************************)
(* Bounds of the model.                                                    *)
(***************************************************************************)
MaxScrubs == 2      \* Scrub calls on one DataProtector
MaxRequests == 2    \* requests counted in one usage record
MaxDay == 2         \* calendar dates 1..MaxDay
MaxArtifacts == 2   \* artifacts listed in a manifest
MaxRouterAnswers == 2   \* Answer calls on one Router
MaxAnswers == 1     \* question-answering calls (Router.Answer, runQuery)
MaxNow == 2         \* seconds the training command's clock runs
MaxConfigs == 2     \* NewTrainingConfig calls
MaxInvocations == 3 \* invocations of the query command on one cost file

(***************************************************************************)
(* Bytes and byte classes.                                                 *)
(***************************************************************************)
CharAt(s, i) == SubSeq(s, i, i)

CharsOf(s) == { CharAt(s, i) : i \in 1..Len(s) }

Digits == CharsOf("0123456789")

Lower == CharsOf("abcdefghijklmnopqrstuvwxyz")

Upper == CharsOf("ABCDEFGHIJKLMNOPQRSTUVWXYZ")

\* \w of Go's regexp (ASCII only)
WordChars == Digits \cup Lower \cup Upper \cup {"_"}

\* [A-Za-z0-9\-_:/.]
ArnChars == Digits \cup Lower \cup Upper \cup CharsOf("-_:/.")

\* [A-Za-z0-9.\-_/]
S3Chars == Digits \cup Lower \cup Upper \cup CharsOf(".-_/")

AccountIdLen == 12

\* the byte at position i is a word byte (positions outside s are not)
IsWordAt(s, i) == i >= 1 /\ i <= Len(s) /\ CharAt(s, i) \in WordChars

\* \b holds between the bytes i-1 and i
WordBoundary(s, i) == IsWordAt(s, i - 1) # IsWordAt(s, i)

IsDigitAt(s, i) == i >= 1 /\ i <= Len(s) /\ CharAt(s, i) \in Digits

\* the bytes i..j of s are all in class
AllIn(s, i, j, class) == \A k \in i..j : k <= Len(s) /\ CharAt(s, k) \in class

HasPrefixAt(s, i, prefix) ==
    /\ i + Len(prefix) - 1 <= Len(s)
    /\ SubSeq(s, i, i + Len(prefix) - 1) = prefix

\* strings.Contains

\* the last position of the longest run of class bytes that starts at i
RECURSIVE RunEnd(_, _, _)
RunEnd(s, i, class) ==
    IF i <= Len(s) /\ CharAt(s, i) \in class THEN RunEnd(s, i + 1, class)
    ELSE i - 1

\* the first position >= from where sub occurs in s, or 0
RECURSIVE IndexFrom(_, _, _)
IndexFrom(s, sub, from) ==
    IF from + Len(sub) - 1 > Len(s) THEN 0
    ELSE IF HasPrefixAt(s, from, sub) THEN from
         ELSE IndexFrom(s, sub, from + 1)

\* strings.Contains
Contains(s, sub) == IndexFrom(s, sub, 1) # 0

(***************************************************************************)
(* The four patterns of Scrub.  Each operator gives the last position of   *)
(* the match that starts at position i, or 0 when there is none.           *)
(***************************************************************************)
\* prefix followed by one or more bytes of class, greedy
PrefixClassMatch(s, i, prefix, class) ==
    IF HasPrefixAt(s, i, prefix)
       /\ i + Len(prefix) <= Len(s)
       /\ CharAt(s, i + Len(prefix)) \in class
    THEN RunEnd(s, i + Len(prefix), class)
    ELSE 0

\* arn:[A-Za-z0-9\-_:/.]+
ArnMatch(s, i) == PrefixClassMatch(s, i, "arn:", ArnChars)

\* s3://[A-Za-z0-9.\-_/]+
S3Match(s, i) == PrefixClassMatch(s, i, "s3://", S3Chars)

\* a pattern that asks for one digit too few: \b\d{11}\b
AccountIdMatchShort(s, i) ==
    IF /\ WordBoundary(s, i)
       /\ i + AccountIdLen - 2 <= Len(s)
       /\ AllIn(s, i, i + AccountIdLen - 2, Digits)
       /\ WordBoundary(s, i + AccountIdLen - 1)
    THEN i + AccountIdLen - 2
    ELSE 0

\* \b\d{12}\b
AccountIdMatch(s, i) ==
    IF /\ WordBoundary(s, i)
       /\ i + AccountIdLen - 1 <= Len(s)
       /\ AllIn(s, i, i + AccountIdLen - 1, Digits)
       /\ WordBoundary(s, i + AccountIdLen)
    THEN i + AccountIdLen - 1
    ELSE 0

\* \b\d{1,3}(?:\.\d{1,3}){3}\b : the ways to split a match into four groups
IpSplits(s, i) ==
    IF ~(WordBoundary(s, i) /\ IsDigitAt(s, i)) THEN {} ELSE
    { n \in (1..3) \X (1..3) \X (1..3) \X (1..3) :
        LET a == i
            b == a + n[1] + 1
            c == b + n[2] + 1
            d == c + n[3] + 1
            e == d + n[4]
        IN  /\ e - 1 <= Len(s)
            /\ WordBoundary(s, i)
            /\ AllIn(s, a, a + n[1] - 1, Digits)
            /\ CharAt(s, b - 1) = "."
            /\ AllIn(s, b, b + n[2] - 1, Digits)
            /\ CharAt(s, c - 1) = "."
            /\ AllIn(s, c, c + n[3] - 1, Digits)
            /\ CharAt(s, d - 1) = "."
            /\ AllIn(s, d, d + n[4] - 1, Digits)
            /\ WordBoundary(s, e) }

\* the greedy quantifiers prefer the longest first group, then the second...
IpRank(n) == ((n[1] * 4 + n[2]) * 4 + n[3]) * 4 + n[4]

IpMatch(s, i) ==
    LET splits == IpSplits(s, i)
    IN  IF splits = {} THEN 0
        ELSE LET n == CHOOSE m \in splits : \A k \in splits : IpRank(k) <= IpRank(m)
             IN  i + n[1] + n[2] + n[3] + n[4] + 2

MatchAt(tag, s, i) ==
    CASE tag = "ARN"        -> ArnMatch(s, i)
      [] tag = "ACCOUNT_ID" -> AccountIdMatch(s, i)
      [] tag = "IP"         -> IpMatch(s, i)
      [] tag = "S3"         -> S3Match(s, i)

\* a pattern list that looks for account numbers before ARNs
PatternsAccountFirst == <<"ACCOUNT_ID", "ARN", "IP", "S3">>

\* the ordered pattern list of Scrub
Patterns == <<"ARN", "ACCOUNT_ID", "IP", "S3">>

\* regexp.FindAllStringIndex(input, -1): the leftmost non-overlapping
\* matches <<start, end>> (end inclusive), searched from position from
RECURSIVE FindAllFrom(_, _, _)
FindAllFrom(tag, s, from) ==
    IF from > Len(s) THEN <<>>
    ELSE LET e == MatchAt(tag, s, from)
         IN  IF e = 0 THEN FindAllFrom(tag, s, from + 1)
             ELSE <<(<<from, e>>)>> \o FindAllFrom(tag, s, e + 1)

FindAllStringIndex(tag, s) == FindAllFrom(tag, s, 1)

(***************************************************************************)
(* DataProtector.                                                          *)
(***************************************************************************)
DigitChar(d) == CharAt("0123456789", d + 1)

\* strconv.Itoa for the non-negative values nextIndex takes
RECURSIVE Itoa(_)
Itoa(n) == IF n < 10 THEN DigitChar(n) ELSE Itoa(n \div 10) \o DigitChar(n % 10)

NewDataProtector == [replacements |-> <<>>, nextIndex |-> 1]

\* a placeholder that carries the same index whatever nextIndex is
buildPlaceholderFixed(p, tag) == "[[" \o tag \o "_" \o Itoa(1) \o "]]"

\* the placeholder buildPlaceholder returns; it also increments nextIndex
buildPlaceholder(p, tag) == "[[" \o tag \o "_" \o Itoa(p.nextIndex) \o "]]"

\* the loop of replaceAll over the matches k..Len(matches); b is the builder,
\* last the position after the previous match.  Gives the protector and the
\* returned string.
RECURSIVE replaceLoop(_, _, _, _, _, _, _)
replaceLoop(p, input, tag, matches, k, last, b) ==
    IF k > Len(matches)
    THEN [p |-> p, out |-> b \o SubSeq(input, last, Len(input))]
    ELSE LET start == matches[k][1]
             end == matches[k][2]
             sensitive == SubSeq(input, start, end)
             placeholder == buildPlaceholder(p, tag)
             q == [replacements |-> (placeholder :> sensitive) @@ p.replacements,
                   nextIndex |-> p.nextIndex + 1]
         IN  replaceLoop(q, input, tag, matches, k + 1, end + 1,
                         b \o SubSeq(input, last, start - 1) \o placeholder)

replaceAll(p, input, tag) ==
    LET matches == FindAllStringIndex(tag, input)
    IN  IF Len(matches) = 0 THEN [p |-> p, out |-> input]
        ELSE replaceLoop(p, input, tag, matches, 1, 1, "")

\* the loop of Scrub over the patterns k..Len(Patterns)
RECURSIVE scrubLoop(_, _, _)
scrubLoop(p, s, k) ==
    IF k > Len(Patterns) THEN [p |-> p, out |-> s]
    ELSE LET r == replaceAll(p, s, Patterns[k])
         IN  scrubLoop(r.p, r.out, k + 1)

\* DataProtector.Scrub: the protector after the call and the returned string
Scrub(p, t) == IF t = "" THEN [p |-> p, out |-> t] ELSE scrubLoop(p, t, 1)

\* strings.ReplaceAll(s, old, new) for a non-empty old
RECURSIVE ReplaceAllFrom(_, _, _, _)
ReplaceAllFrom(s, old, new, from) ==
    LET i == IndexFrom(s, old, from)
    IN  IF i = 0 THEN SubSeq(s, from, Len(s))
        ELSE SubSeq(s, from, i - 1) \o new \o ReplaceAllFrom(s, old, new, i + Len(old))

\* the replacement with its two last arguments exchanged
ReplaceAllSwapped(s, old, new) == ReplaceAllFrom(s, new, old, 1)

ReplaceAll(s, old, new) == ReplaceAllFrom(s, old, new, 1)

\* the loop of Unscrub: Go ranges over the map in an unspecified order, so
\* every order of the remaining keys is possible
RECURSIVE unscrubLoop(_, _, _)
unscrubLoop(p, result, keys) ==
    IF keys = {} THEN {result}
    ELSE UNION { unscrubLoop(p, ReplaceAll(result, k, p.replacements[k]), keys \ {k})
                 : k \in keys }

\* DataProtector.Unscrub: the strings the call can return
Unscrub(p, t) ==
    IF Cardinality(DOMAIN p.replacements) = 0 \/ t = "" THEN {t}
    ELSE unscrubLoop(p, t, DOMAIN p.replacements)

(***************************************************************************)
(* CostManager.  Money is in units of 1/100000 dollar; the prices of the   *)
(* model table are in cents per 1000 tokens.                               *)
(***************************************************************************)
Haiku == "anthropic.claude-3-haiku-20240307-v1:0"

Sonnet == "anthropic.claude-3-sonnet-20240229-v1:0"

Titan == "amazon.titan-text-express-v1"

Llama == "meta.llama3.2-70b-instruct-v1:0"

ModelCosts ==
    << [ModelID |-> Haiku,  InputTokenCost |-> 25,  OutputTokenCost |-> 125,
        Speed |-> 9, Quality |-> 7],
       [ModelID |-> Sonnet, InputTokenCost |-> 300, OutputTokenCost |-> 1500,
        Speed |-> 7, Quality |-> 9],
       [ModelID |-> Titan,  InputTokenCost |-> 13,  OutputTokenCost |-> 17,
        Speed |-> 8, Quality |-> 6],
       [ModelID |-> Llama,  InputTokenCost |-> 99,  OutputTokenCost |-> 99,
        Speed |-> 6, Quality |-> 8] >>

\* a dollar amount with two decimals, in units
Dollars(whole, cents) == (whole * 100 + cents) * 1000

\* the positions of the table entries for modelID
ModelIndexes(modelID) == { i \in 1..Len(ModelCosts) : ModelCosts[i].ModelID = modelID }

\* GetModelCost returns nil when this set is empty, else the first entry
FirstModelIndex(modelID) ==
    CHOOSE i \in ModelIndexes(modelID) : \A j \in ModelIndexes(modelID) : i <= j

\* CostManager.CalculateCost
CalculateCost(inputTokens, outputTokens, modelID) ==
    IF ModelIndexes(modelID) = {} THEN 0
    ELSE LET model == ModelCosts[FirstModelIndex(modelID)]
         IN  inputTokens * model.InputTokenCost + outputTokens * model.OutputTokenCost

\* the CostTracker LoadUsage and TrackUsage start a day with
FreshUsage(date) ==
    [Date |-> date, TotalCost |-> 0, RequestCount |-> 0, TokensUsed |-> 0]

\* a loading that resumes the persisted record whatever its date
LoadUsageAnyDate(file, date) ==
    IF file.state = "ok" THEN file.usage ELSE FreshUsage(date)

\* a loading that never resumes a record
LoadUsageFresh(file, date) == FreshUsage(date)

\* CostManager.LoadUsage: the CurrentUsage it sets.  file.state is "absent"
\* (ReadFile fails), "corrupt" (Unmarshal fails) or "ok".
LoadUsage(file, date) ==
    IF file.state = "absent" THEN FreshUsage(date)
    ELSE IF file.state = "corrupt" THEN FreshUsage(date)
    ELSE IF file.usage.Date # date THEN FreshUsage(date)
    ELSE file.usage

NewCostManager(dailyLimit, file, date) ==
    [DailyLimit |-> dailyLimit, CurrentUsage |-> LoadUsage(file, date)]

\* a saving that writes the redaction map beside the usage record
SaveUsageWithMapping(cm) ==
    [state |-> "ok",
     usage |-> [replacements |-> protector.replacements] @@ cm.CurrentUsage]

\* CostManager.SaveUsage: the file it writes
SaveUsage(cm) == [state |-> "ok", usage |-> cm.CurrentUsage]

\* a check that forgets the running total
CanMakeRequestAlone(cm, estimatedCost) == estimatedCost <= cm.DailyLimit

\* CostManager.CanMakeRequest
CanMakeRequest(cm, estimatedCost) ==
    cm.CurrentUsage.TotalCost + estimatedCost <= cm.DailyLimit

\* CostManager.GetRemainingBudget
GetRemainingBudget(cm) == cm.DailyLimit - cm.CurrentUsage.TotalCost

\* a tracking that adds the cost and the tokens but not the request
TrackUsageNoCount(cm, inputTokens, outputTokens, modelID) ==
    [cm EXCEPT !.CurrentUsage.TotalCost =
                    @ + CalculateCost(inputTokens, outputTokens, modelID),
               !.CurrentUsage.TokensUsed = @ + inputTokens + outputTokens]

\* CostManager.TrackUsage: the manager after the call (it then saves it)
TrackUsage(cm, inputTokens, outputTokens, modelID) ==
    [cm EXCEPT !.CurrentUsage.TotalCost =
                    @ + CalculateCost(inputTokens, outputTokens, modelID),
               !.CurrentUsage.RequestCount = @ + 1,
               !.CurrentUsage.TokensUsed = @ + inputTokens + outputTokens]

(***************************************************************************)
(* SelectBestAWSModel.                                                     *)
(***************************************************************************)
RefInputTokens == 1000

RefOutputTokens == 500

RequestsPerDay == 10

\* estimatedCost of the loop of SelectBestAWSModel, as an exact amount
estimatedCostOf(model) ==
    RefInputTokens * model.InputTokenCost + RefOutputTokens * model.OutputTokenCost

\* The float64 sum the code computes is the exact amount for three models
\* of the table (0.875, 10.5, and 1.485 rounded as 14.85/10.0 is rounded);
\* for Titan, 0.13 + 0.5*0.17 evaluates to 0.21500000000000002, above the
\* 0.215 that 2.15/10.0 evaluates to.
RoundsAbove(model) == model.ModelID = Titan

\* estimatedCost <= maxCostPerRequest as float64 evaluates it, for budgets
\* in whole cents
Affordable(model, dailyBudget) ==
    \/ estimatedCostOf(model) * RequestsPerDay < dailyBudget
    \/ /\ estimatedCostOf(model) * RequestsPerDay = dailyBudget
       /\ ~RoundsAbove(model)

affordableModels(dailyBudget) ==
    SelectSeq(ModelCosts, LAMBDA model : Affordable(model, dailyBudget))

\* the test of the selection loop: model replaces best
Better(prioritizeSpeed, model, best) ==
    IF prioritizeSpeed
    THEN model.Speed > best.Speed \/ (model.Speed = best.Speed /\ model.Quality > best.Quality)
    ELSE model.Quality > best.Quality \/ (model.Quality = best.Quality /\ model.Speed > best.Speed)

RECURSIVE bestLoop(_, _, _, _)
bestLoop(models, i, best, prioritizeSpeed) ==
    IF i > Len(models) THEN best
    ELSE bestLoop(models, i + 1,
                  IF Better(prioritizeSpeed, models[i], best) THEN models[i] ELSE best,
                  prioritizeSpeed)

RECURSIVE cheapestLoop(_, _)
cheapestLoop(i, cheapest) ==
    IF i > Len(ModelCosts) THEN cheapest
    ELSE cheapestLoop(i + 1,
                      IF ModelCosts[i].InputTokenCost + ModelCosts[i].OutputTokenCost
                             < cheapest.InputTokenCost + cheapest.OutputTokenCost
                      THEN ModelCosts[i] ELSE cheapest)

\* a table without the preference for Haiku
NoHaikuOf(models) == <<>>

\* the first entry of models with Haiku's id, when there is one
HaikuOf(models) ==
    LET found == SelectSeq(models, LAMBDA model : model.ModelID = Haiku)
    IN  IF Len(found) = 0 THEN <<>> ELSE <<found[1]>>

\* a selection that returns the affordable model of the lowest price
SelectCheapestAWSModel(dailyBudget, prioritizeSpeed) ==
    LET affordable == affordableModels(dailyBudget)
    IN  IF Len(affordable) = 0 THEN ModelCosts[1]
        ELSE CHOOSE m \in { affordable[i] : i \in 1..Len(affordable) } :
                 \A i \in 1..Len(affordable) : estimatedCostOf(m) <= estimatedCostOf(affordable[i])

SelectBestAWSModel(dailyBudget, prioritizeSpeed) ==
    LET affordable == affordableModels(dailyBudget)
    IN  IF Len(affordable) = 0
        THEN IF Len(HaikuOf(ModelCosts)) > 0 THEN HaikuOf(ModelCosts)[1]
             ELSE cheapestLoop(1, ModelCosts[1])
        ELSE IF Len(HaikuOf(affordable)) > 0 THEN HaikuOf(affordable)[1]
        ELSE bestLoop(affordable, 1, affordable[1], prioritizeSpeed)

(***************************************************************************)
(* Client.Answer.                                                          *)
(***************************************************************************)
\* a nil *Client; the other Clients have backend "aws", "ollama" or "openai"
NoClient == [backend |-> "nil", modelID |-> "", hasCostManager |-> FALSE,
             costManager |-> [DailyLimit |-> 0,
                              CurrentUsage |-> [Date |-> 0, TotalCost |-> 0,
                                                RequestCount |-> 0, TokensUsed |-> 0]]]

NoError == [kind |-> "nil", remaining |-> 0, estimated |-> 0]

NothingSent == [n |-> 0, backend |-> "", question |-> "", context |-> ""]

NoCall == [op |-> "none"]

\* no cache file: Exists() is false
NoCache == [state |-> "missing", context |-> ""]

\* the bytes of buildRAGPrompt's template without its two %s verbs
PromptOverhead == 1567

\* len(buildRAGPrompt(question, context))
PromptLen(question, context) == PromptOverhead + Len(context) + Len(question)

CharsPerToken == 4

AssumedOutputTokens == 500

DefaultSmallCost == Dollars(0, 1)

\* Client.estimateRequestCost on a client with an awsClient
estimateRequestCost(c, promptLen) ==
    IF ModelIndexes(c.modelID) = {} THEN DefaultSmallCost
    ELSE CalculateCost(promptLen \div CharsPerToken, AssumedOutputTokens, c.modelID)

\* "%.2f" of an amount: the nearest cent
RoundCents(u) == IF u >= 0 THEN (u + 500) \div 1000 ELSE 0 - ((500 - u) \div 1000)

BudgetError(remaining, estimatedCost) ==
    [kind |-> "budget", remaining |-> RoundCents(remaining),
     estimated |-> RoundCents(estimatedCost)]

BackendError == [kind |-> "backend", remaining |-> 0, estimated |-> 0]

\* the request is refused before it is sent
Refused(c, promptLen) ==
    /\ c.backend = "aws"
    /\ c.hasCostManager
    /\ ~CanMakeRequest(c.costManager, estimateRequestCost(c, promptLen))

\* the part of Client.Answer after the budget check
AnswerSend(c, question, context, reply, file) ==
    LET promptLen == PromptLen(question, context)
        tracked == c.backend = "aws" /\ reply.ok /\ c.hasCostManager
        cm == TrackUsage(c.costManager, promptLen \div CharsPerToken,
                         reply.len \div CharsPerToken, c.modelID)
    IN  [ client |-> IF tracked THEN [c EXCEPT !.costManager = cm] ELSE c,
          file |-> IF tracked THEN SaveUsage(cm) ELSE file,
          requested |-> TRUE,
          err |-> IF reply.ok THEN NoError ELSE BackendError ]

\* an Answer that sends the request without the budget check
AnswerUnchecked(c, question, context, reply, file) ==
    AnswerSend(c, question, context, reply, file)

\* Client.Answer(ctx, question, context) on client c, when the backend's
\* reply to a request is reply = [ok, len] (ok: no error; len: the bytes of
\* the response) and the cost file holds file.  Gives the client and the
\* file after the call, whether a request went to the backend, and the error.
Answer(c, question, context, reply, file) ==
    LET promptLen == PromptLen(question, context)
    IN  IF Refused(c, promptLen)
        THEN [ client |-> c,
               file |-> file,
               requested |-> FALSE,
               err |-> BudgetError(GetRemainingBudget(c.costManager),
                                   estimateRequestCost(c, promptLen)) ]
        ELSE AnswerSend(c, question, context, reply, file)

(***************************************************************************)
(* Input texts given to Scrub.                                             *)
(***************************************************************************)
Texts ==
    { "",
      "x",
      "arn:a",
      "123456789012",
      "1.2.3.4",
      "s3://b",
      "x123456789012",
      "1234567890123",
      "arn:a:123456789012",
      "123456789012s3://b",
      "s3://b/123456789012",
      "[[ARN_1]]",
      "[[ARN_1]] arn:a",
      "arn:a arn:b",
      "id 123456789012 ip 1.2.3.4",
      "123456789012 x123456789012",
      "1.2.3.4.5 1.2.3.4444",
      "arn:a:123456789012 210987654321" }

(***************************************************************************)
(* Variables a specification does not use keep these values.               *)
(***************************************************************************)
IdleProtector ==
    /\ protector = NewDataProtector
    /\ text = ""
    /\ scrubbed = ""
    /\ restored = ""
    /\ pc = [op |-> "new", scrubs |-> 0]

IdleCost ==
    /\ clients = [arch |-> NoClient, general |-> NoClient]
    /\ costFile = [state |-> "absent", usage |-> NoClient.costManager.CurrentUsage]
    /\ today = 1
    /\ sent = NothingSent
    /\ call = NoCall
    /\ configModel = ""
    /\ procs = <<>>
    /\ trainer = <<>>
    /\ wait = <<>>
    /\ cache = NoCache

(***************************************************************************)
(* The DataProtector as a state machine: Scrub calls followed by Unscrub   *)
(* of the last scrubbed text.                                              *)
(***************************************************************************)
InitProtector == IdleProtector /\ IdleCost

ScrubCall(t) ==
    /\ pc.scrubs < MaxScrubs
    /\ LET r == Scrub(protector, t)
       IN  /\ protector' = r.p
           /\ scrubbed' = r.out
    /\ text' = t
    /\ pc' = [op |-> "Scrub", scrubs |-> pc.scrubs + 1]
    /\ UNCHANGED restored
    /\ UNCHANGED costVars

UnscrubCall ==
    /\ pc.op = "Scrub"
    /\ restored' \in Unscrub(protector, scrubbed)
    /\ pc' = [pc EXCEPT !.op = "Unscrub"]
    /\ UNCHANGED <<protector, text, scrubbed>>
    /\ UNCHANGED costVars

NextProtector ==
    \/ \E t \in Texts : ScrubCall(t)
    \/ UnscrubCall

SpecProtector == InitProtector /\ [][NextProtector]_vars

(***************************************************************************)
(* The cost governor as a state machine: a process builds its AWS client   *)
(* (newAWSClientFromConfig, NewArchClientFromEnv), which loads the usage   *)
(* record of the day, and calls Client.Answer on it; days pass.            *)
(***************************************************************************)
RECURSIVE Repeat(_, _)
Repeat(s, n) ==
    IF n = 0 THEN ""
    ELSE IF n % 2 = 0 THEN LET half == Repeat(s, n \div 2) IN half \o half
         ELSE s \o Repeat(s, n - 1)

\* daily limits: the default of newAWSClientFromConfig and the one of
\* NewArchClientFromEnv
DefaultDailyLimit == Dollars(5, 0)

ArchDailyLimit == Dollars(2, 0)

DailyLimits == {DefaultDailyLimit, ArchDailyLimit}

\* model ids: two of the table and NewArchClientFromEnv's default, which is
\* not in the table
ArchModelID == "arch-bot"

ModelIDs == {Haiku, Sonnet, ArchModelID}

CostQuestions == {"q"}

CostContexts == {"{}", Repeat("{\"a\":1}", 400)}

\* the backend fails, or answers with 400 or with 8000 bytes
Replies == { [ok |-> FALSE, len |-> 0], [ok |-> TRUE, len |-> 400],
             [ok |-> TRUE, len |-> 8000] }

AWSClientWith(dailyLimit, modelID, file, date) ==
    [backend |-> "aws", modelID |-> modelID, hasCostManager |-> TRUE,
     costManager |-> NewCostManager(dailyLimit, file, date)]

InitCost ==
    /\ IdleProtector
    /\ clients = [arch |-> NoClient, general |-> NoClient]
    /\ costFile \in { [state |-> st, usage |-> FreshUsage(0)] : st \in {"absent", "corrupt"} }
    /\ today = 1
    /\ sent = NothingSent
    /\ call = NoCall
    /\ configModel = ""
    /\ procs = <<>>
    /\ trainer = <<>>
    /\ wait = <<>>
    /\ cache = NoCache

\* the process builds its client: newAWSClientFromConfig lines 67-82
NewAWSClientCall(dailyLimit, modelID) ==
    /\ clients' = [clients EXCEPT !.general =
                       AWSClientWith(dailyLimit, modelID, costFile, today)]
    /\ call' = [op |-> "NewCostManager"]
    /\ UNCHANGED <<costFile, today, sent, configModel, cache, procs, trainer, wait>>
    /\ UNCHANGED protVars

\* the request counts as handed to a backend
Send(backend, question, context) ==
    [n |-> sent.n + 1, backend |-> backend, question |-> question, context |-> context]

\* Client.Answer on the process's client
ClientAnswerCall(question, context, reply) ==
    /\ clients.general.backend # "nil"
    /\ sent.n < MaxRequests
    /\ LET c == clients.general
           r == Answer(c, question, context, reply, costFile)
       IN  /\ clients' = [clients EXCEPT !.general = r.client]
           /\ costFile' = r.file
           /\ sent' = IF r.requested THEN Send(c.backend, question, context) ELSE sent
           /\ call' = [op |-> "Answer", question |-> question, context |-> context,
                       reply |-> reply, err |-> r.err,
                       usage |-> r.client.costManager.CurrentUsage]
    /\ UNCHANGED <<today, configModel, cache, procs, trainer, wait>>
    /\ UNCHANGED protVars

\* midnight
NextDay ==
    /\ today < MaxDay
    /\ today' = today + 1
    /\ call' = [op |-> "NextDay"]
    /\ UNCHANGED <<clients, costFile, sent, configModel, cache, procs, trainer, wait>>
    /\ UNCHANGED protVars

NextCost ==
    \/ \E dailyLimit \in DailyLimits, modelID \in ModelIDs :
          NewAWSClientCall(dailyLimit, modelID)
    \/ \E question \in CostQuestions, context \in CostContexts, reply \in Replies :
          ClientAnswerCall(question, context, reply)
    \/ NextDay

SpecCost == InitCost /\ [][NextCost]_vars

(***************************************************************************)
(* NewClient.  env is what the process finds: the settings of the config   *)
(* file (model.type, model.aws_type, model.model_id, cost.daily_limit,     *)
(* model.name), the environment variables (AWS_MODEL_TYPE, AWS_MODEL_ID,   *)
(* OLLAMA_MODEL, OPENAI_API_KEY), whether the AWS configuration loads,     *)
(* whether the Ollama server answers, and the model SelectBestModel finds  *)
(* ("" when it fails).                                                     *)
(***************************************************************************)
AWSModelTypes == {"bedrock", "sagemaker", "openai"}

ClientError(kind) == [kind |-> kind, remaining |-> 0, estimated |-> 0]

OllamaClient == [NoClient EXCEPT !.backend = "ollama"]

OpenAIClient == [NoClient EXCEPT !.backend = "openai"]

\* NewAWSClient succeeds
NewAWSClientOk(env, awsType) == env.awsLoads /\ awsType \in AWSModelTypes

\* the request isOllamaAvailable and getAvailableModels send
GetTags(env) == [to |-> "ollama", request |-> "GET /api/tags"]

\* the results below hold the error, the client, the "model:" line of the
\* config file after the call, and the network calls made
newAWSClientFromConfig(env, model, file, date) ==
    IF ~NewAWSClientOk(env, env.cfgAwsType)
    THEN [err |-> ClientError("client"), client |-> NoClient, model |-> model,
          calls |-> <<>>]
    ELSE [err |-> NoError,
          client |-> AWSClientWith(IF env.cfgDailyLimit = 0 THEN DefaultDailyLimit
                                   ELSE env.cfgDailyLimit,
                                   env.cfgModelID, file, date),
          model |-> model, calls |-> <<>>]

\* a construction that goes on to the other backends when Ollama is not there
newOllamaClientOrFallback(env, model) ==
    IF env.cfgOllamaName = ""
    THEN [err |-> ClientError("client"), client |-> NoClient, model |-> model,
          calls |-> <<>>]
    ELSE IF ~env.ollamaUp
    THEN IF env.openaiKey
         THEN [err |-> NoError, client |-> OpenAIClient, model |-> model,
               calls |-> <<GetTags(env)>>]
         ELSE [err |-> ClientError("client"), client |-> NoClient, model |-> model,
               calls |-> <<GetTags(env)>>]
    ELSE [err |-> NoError, client |-> OllamaClient, model |-> model,
          calls |-> <<GetTags(env)>>]

newOllamaClientFromConfig(env, model) ==
    IF env.cfgOllamaName = ""
    THEN [err |-> ClientError("client"), client |-> NoClient, model |-> model,
          calls |-> <<>>]
    ELSE IF ~env.ollamaUp
    THEN [err |-> ClientError("client"), client |-> NoClient, model |-> model,
          calls |-> <<GetTags(env)>>]
    ELSE [err |-> NoError, client |-> OllamaClient, model |-> model,
          calls |-> <<GetTags(env)>>]

newClientFromEnvAndAutoDetect(env, model, file, date) ==
    IF env.envAwsType # ""
    THEN IF ~NewAWSClientOk(env, env.envAwsType)
         THEN [err |-> ClientError("client"), client |-> NoClient, model |-> model,
               calls |-> <<>>]
         ELSE [err |-> NoError,
               client |-> AWSClientWith(DefaultDailyLimit, env.envModelID, file, date),
               model |-> model, calls |-> <<>>]
    ELSE IF env.ollamaUp
    THEN IF env.envOllamaModel # "" \/ model # ""
         THEN [err |-> NoError, client |-> OllamaClient, model |-> model,
               calls |-> <<GetTags(env)>>]
         \* SelectBestModel calls getAvailableModels
         ELSE IF env.bestModel = ""
              THEN [err |-> ClientError("client"), client |-> NoClient, model |-> model,
                    calls |-> <<GetTags(env), GetTags(env)>>]
              \* saveModelToConfig
              ELSE [err |-> NoError, client |-> OllamaClient, model |-> env.bestModel,
                    calls |-> <<GetTags(env), GetTags(env)>>]
    ELSE IF ~env.openaiKey
         THEN [err |-> ClientError("client"), client |-> NoClient, model |-> model,
               calls |-> <<GetTags(env)>>]
         ELSE [err |-> NoError, client |-> OpenAIClient, model |-> model,
               calls |-> <<GetTags(env)>>]

\* a NewClient that looks at the environment before the config file
NewClientEnvFirst(env, model, file, date) ==
    IF env.envAwsType # "" \/ env.ollamaUp
    THEN newClientFromEnvAndAutoDetect(env, model, file, date)
    ELSE IF env.modelType = "aws" THEN newAWSClientFromConfig(env, model, file, date)
    ELSE IF env.modelType = "ollama" THEN newOllamaClientFromConfig(env, model)
    ELSE newClientFromEnvAndAutoDetect(env, model, file, date)

\* NewClient; model is the "model:" line of the config file before the call
NewClient(env, model, file, date) ==
    IF env.modelType = "aws" THEN newAWSClientFromConfig(env, model, file, date)
    ELSE IF env.modelType = "ollama" THEN newOllamaClientFromConfig(env, model)
    ELSE newClientFromEnvAndAutoDetect(env, model, file, date)

(***************************************************************************)
(* Router.                                                                 *)
(***************************************************************************)
archKeywords ==
    << "architecture", "lambda", "sns", "s3", "vpc", "subnet", "step function",
       "eventbridge", "api gateway", "trigger", "cloudformation" >>

LowerAlphabet == "abcdefghijklmnopqrstuvwxyz"

UpperAlphabet == "ABCDEFGHIJKLMNOPQRSTUVWXYZ"

\* strings.ToLower of one byte
ToLowerChar(c) ==
    IF c \in Upper
    THEN CharAt(LowerAlphabet, CHOOSE i \in 1..26 : CharAt(UpperAlphabet, i) = c)
    ELSE c

\* strings.ToLower of an ASCII string
RECURSIVE ToLower(_)
ToLower(s) == IF s = "" THEN "" ELSE ToLowerChar(Head(s)) \o ToLower(Tail(s))

\* a choice that tests the keywords before it looks at the arch client
chooseClientKeywordsFirst(arch, lowerQ) ==
    IF \E i \in 1..Len(archKeywords) : Contains(lowerQ, archKeywords[i]) THEN "arch"
    ELSE "general"

\* a choice that wants the question to begin with the keyword
chooseClientPrefix(arch, lowerQ) ==
    IF arch.backend = "nil" THEN "general"
    ELSE IF \E i \in 1..Len(archKeywords) : HasPrefixAt(lowerQ, 1, archKeywords[i])
         THEN "arch"
         ELSE "general"

\* Router.chooseClient: which of the Router's two clients it returns;
\* arch is the Router's archClient
chooseClient(arch, lowerQ) ==
    IF arch.backend = "nil" THEN "general"
    ELSE IF \E i \in 1..Len(archKeywords) : Contains(lowerQ, archKeywords[i])
         THEN "arch"
         ELSE "general"

(***************************************************************************)
(* Question answering as a state machine: a Router built over two clients  *)
(* answers questions (Router.Answer), and the CLI answers questions with a *)
(* client of its own (runQuery).                                           *)
(***************************************************************************)
Questions ==
    { "", "hello", "My LAMBDA", "list s3://b", "who owns 123456789012", "vpc of arn:a" }

Contexts == { "{}", "{\"Role\":\"arn:a:123456789012\"}" }

\* the project cache file .cloudai/cache.json: missing, unparsable, or
\* holding a tree that json.Marshal writes as context
Caches ==
    { NoCache, [state |-> "corrupt", context |-> ""] }
    \cup { [state |-> "ok", context |-> c] : c \in Contexts }

BaseEnv ==
    [modelType |-> "", cfgAwsType |-> "", cfgModelID |-> "", cfgDailyLimit |-> 0,
     cfgOllamaName |-> "", awsLoads |-> TRUE, envAwsType |-> "", envModelID |-> "",
     ollamaUp |-> FALSE, envOllamaModel |-> "", bestModel |-> "", openaiKey |-> FALSE]

Envs ==
    { [BaseEnv EXCEPT !.modelType = "aws", !.cfgAwsType = "bedrock", !.cfgModelID = Haiku],
      [BaseEnv EXCEPT !.modelType = "aws", !.cfgAwsType = "bedrock", !.cfgModelID = Haiku,
                      !.awsLoads = FALSE],
      [BaseEnv EXCEPT !.modelType = "ollama", !.cfgOllamaName = "llama3", !.ollamaUp = TRUE],
      [BaseEnv EXCEPT !.envAwsType = "sagemaker", !.envModelID = ArchModelID],
      [BaseEnv EXCEPT !.ollamaUp = TRUE, !.bestModel = "phi3"],
      [BaseEnv EXCEPT !.openaiKey = TRUE],
      BaseEnv }

AnswerReplies == { [ok |-> FALSE, len |-> 0], [ok |-> TRUE, len |-> 400] }

\* the clients a Router is built over: NewArchClientFromEnv gives nil or a
\* SageMaker client, NewClient one of the three kinds
ArchClients(file, date) ==
    { NoClient, AWSClientWith(ArchDailyLimit, ArchModelID, file, date) }

GeneralClients(file, date) ==
    { OllamaClient, OpenAIClient, AWSClientWith(DefaultDailyLimit, Haiku, file, date) }

InitAnswer ==
    /\ IdleProtector
    /\ costFile = [state |-> "absent", usage |-> FreshUsage(0)]
    /\ today = 1
    /\ \E arch \in ArchClients(costFile, today), general \in GeneralClients(costFile, today) :
          clients = [arch |-> arch, general |-> general]
    /\ sent = NothingSent
    /\ call = [op |-> "NewRouter", n |-> 0]
    /\ configModel = ""
    /\ procs = <<>>
    /\ trainer = <<>>
    /\ wait = <<>>
    /\ cache \in Caches

\* Router.Answer
RouterAnswerStep(question, context, reply) ==
    /\ \E q \in {Scrub(protector, question)} :
       \E x \in {Scrub(q.p, context)} :
       \E chosen \in {chooseClient(clients.arch, ToLower(question))} :
       \E r \in {Answer(clients[chosen], q.out, x.out, reply, costFile)} :
           /\ protector' = x.p
           /\ clients' = [clients EXCEPT ![chosen] = r.client]
           /\ costFile' = r.file
           /\ sent' = IF r.requested THEN Send(clients[chosen].backend, q.out, x.out)
                      ELSE sent
           /\ call' = [op |-> "Router.Answer", n |-> call.n + 1, question |-> question,
                       context |-> context, chosen |-> chosen, err |-> r.err,
                       constructed |-> TRUE]
    /\ UNCHANGED <<text, scrubbed, restored, pc, today, configModel, cache, procs, trainer, wait>>

RouterAnswer(question, context, reply) ==
    /\ call.n < MaxAnswers
    /\ RouterAnswerStep(question, context, reply)

\* a runQuery that builds its client before it looks for the cache
runQueryClientFirst(question, cacheFile, env, model, file, date, reply) ==
    LET made == NewClient(env, model, file, date)
    IN  [ err |-> IF made.err.kind # "nil" THEN made.err ELSE ClientError("cache"),
          constructed |-> made.err.kind = "nil", model |-> made.model,
          file |-> file, requested |-> FALSE, backend |-> "", context |-> "",
          calls |-> made.calls ]

\* a runQuery that sends the request again when the backend fails
runQueryRetry(question, cacheFile, env, model, file, date, reply) ==
    LET made == NewClient(env, model, file, date)
        r == Answer(made.client, question, cacheFile.context, reply, file)
    IN  IF cacheFile.state # "ok" \/ made.err.kind # "nil"
        THEN runQueryClientFirst(question, cacheFile, env, model, file, date, reply)
        ELSE [ err |-> r.err, constructed |-> TRUE, model |-> made.model,
               file |-> r.file, requested |-> r.requested,
               backend |-> made.client.backend, context |-> cacheFile.context,
               calls |-> made.calls \o
                         (IF ~r.requested THEN <<>>
                          ELSE IF r.err.kind = "nil"
                          THEN <<[to |-> made.client.backend, request |-> "answer"]>>
                          ELSE <<[to |-> made.client.backend, request |-> "answer"],
                                 [to |-> made.client.backend, request |-> "answer"]>>) ]

\* runQuery(cmd, args) with args[0] = question, when the project's cache
\* file is cacheFile: the error, whether NewClient gave a client, the
\* "model:" line and the cost file after the call, whether a request with
\* which context went to which backend, and the network calls made
runQuery(question, cacheFile, env, model, file, date, reply) ==
    IF cacheFile.state # "ok"
    THEN [ err |-> ClientError("cache"), constructed |-> FALSE, model |-> model,
           file |-> file, requested |-> FALSE, backend |-> "", context |-> "",
           calls |-> <<>> ]
    ELSE LET made == NewClient(env, model, file, date)
             r == Answer(made.client, question, cacheFile.context, reply, file)
         IN  IF made.err.kind # "nil"
             THEN [ err |-> made.err, constructed |-> FALSE, model |-> made.model,
                    file |-> file, requested |-> FALSE, backend |-> "", context |-> "",
                    calls |-> made.calls ]
             ELSE [ err |-> r.err, constructed |-> TRUE, model |-> made.model,
                    file |-> r.file, requested |-> r.requested,
                    backend |-> made.client.backend, context |-> cacheFile.context,
                    calls |-> IF r.requested
                              THEN Append(made.calls, [to |-> made.client.backend,
                                                       request |-> "answer"])
                              ELSE made.calls ]

RunQuery(question, env, reply) ==
    /\ call.n < MaxAnswers
    /\ \E q \in {runQuery(question, cache, env, configModel, costFile, today, reply)} :
           /\ configModel' = q.model
           /\ costFile' = q.file
           /\ sent' = IF q.requested THEN Send(q.backend, question, q.context) ELSE sent
           /\ call' = [op |-> "runQuery", n |-> call.n + 1, question |-> question,
                       context |-> q.context, chosen |-> "own", err |-> q.err,
                       constructed |-> q.constructed]
    /\ UNCHANGED <<clients, today, cache, procs, trainer, wait>>
    /\ UNCHANGED protVars

NextAnswer ==
    \/ \E question \in Questions, context \in Contexts, reply \in AnswerReplies :
          RouterAnswer(question, context, reply)
    \/ \E question \in Questions, env \in Envs, reply \in AnswerReplies :
          RunQuery(question, env, reply)

SpecAnswer == InitAnswer /\ [][NextAnswer]_vars

(***************************************************************************)
(* One Router over its lifetime: Answer calls one after another on the     *)
(* Router NewRouter built.                                                 *)
(***************************************************************************)
InitRouter == InitAnswer /\ cache = NoCache

RouterAnswerAgain(question, context, reply) ==
    /\ call.n < MaxRouterAnswers
    /\ RouterAnswerStep(question, context, reply)

NextRouter ==
    \E question \in Questions, context \in Contexts, reply \in AnswerReplies :
        RouterAnswerAgain(question, context, reply)

SpecRouter == InitRouter /\ [][NextRouter]_vars

(***************************************************************************)
(* Model selection as a state machine: the interactive setup has read the  *)
(* daily budget (a positive amount) and the priority, and selects a model. *)
(***************************************************************************)
BudgetCents ==
    { 1, 100, 200, 210, 214, 215, 216, 220, 500, 870, 874, 875, 876, 880, 1000,
      1480, 1484, 1485, 1486, 1490, 1500, 2000, 5000, 10000, 10499, 10500, 10501,
      20000 }

Budgets == { Dollars(c \div 100, c % 100) : c \in BudgetCents }

InitSelect ==
    /\ IdleProtector
    /\ clients = [arch |-> NoClient, general |-> NoClient]
    /\ costFile = [state |-> "absent", usage |-> FreshUsage(0)]
    /\ today = 1
    /\ sent = NothingSent
    /\ \E dailyBudget \in Budgets, prioritizeSpeed \in BOOLEAN :
          call = [op |-> "setup", dailyBudget |-> dailyBudget,
                  prioritizeSpeed |-> prioritizeSpeed]
    /\ configModel = ""
    /\ procs = <<>>
    /\ trainer = <<>>
    /\ wait = <<>>
    /\ cache = NoCache

SelectBestAWSModelCall ==
    /\ call.op = "setup"
    /\ call' = [op |-> "SelectBestAWSModel", dailyBudget |-> call.dailyBudget,
                prioritizeSpeed |-> call.prioritizeSpeed,
                bestModel |-> SelectBestAWSModel(call.dailyBudget, call.prioritizeSpeed)]
    /\ UNCHANGED <<clients, costFile, today, sent, configModel, cache, procs, trainer, wait>>
    /\ UNCHANGED protVars

NextSelect == SelectBestAWSModelCall

SpecSelect == InitSelect /\ [][NextSelect]_vars

(***************************************************************************)
(* The scan command.  A JSON tree is written as its compact encoding with  *)
(* sorted keys, which is what json.Marshal gives for it.  A project is the *)
(* directory given to scan: whether it has a cdk.out, the manifest.json in *)
(* it, and the template files beside the manifest.                        *)
(***************************************************************************)
StackType == "aws:cloudformation:stack"

TemplateFiles == { "A.template.json", "B.template.json" }

\* an artifact entry of the manifest: a stack with its template, or a tree
Artifacts ==
    { [type |-> StackType, templateFile |-> f] : f \in TemplateFiles }
    \cup { [type |-> "cdk:tree", templateFile |-> ""] }

\* the artifacts in the order the manifest lists them, under distinct keys
ArtifactLists == UNION { [1..n -> Artifacts] : n \in 0..MaxArtifacts }

FileStates ==
    { [state |-> "missing", tree |-> ""], [state |-> "corrupt", tree |-> ""] }
    \cup { [state |-> "ok", tree |-> t] : t \in Contexts }

NoFiles == [f \in TemplateFiles |-> [state |-> "missing", tree |-> ""]]

Projects ==
    { [cdkOut |-> FALSE, manifest |-> "missing", artifacts |-> <<>>, files |-> NoFiles],
      [cdkOut |-> TRUE, manifest |-> "missing", artifacts |-> <<>>, files |-> NoFiles],
      [cdkOut |-> TRUE, manifest |-> "corrupt", artifacts |-> <<>>, files |-> NoFiles] }
    \cup { [cdkOut |-> TRUE, manifest |-> "ok", artifacts |-> a, files |-> f] :
               a \in ArtifactLists, f \in [TemplateFiles -> FileStates] }

ScanResult(err, data) == [err |-> [kind |-> err, remaining |-> 0, estimated |-> 0],
                          data |-> data]

\* the body of the loop of scanCdk for a stack artifact
templateOf(project, artifact) ==
    LET file == project.files[artifact.templateFile]
    IN  IF file.state = "missing" THEN ScanResult("read-template", "")
        ELSE IF file.state = "corrupt" THEN ScanResult("parse-template", "")
        ELSE ScanResult("nil", file.tree)

\* the positions of the manifest's stack artifacts
StackArtifacts(project) ==
    { i \in 1..Len(project.artifacts) : project.artifacts[i].type = StackType }

\* IaCProvider.scanCdk: what it may return.  manifest.Artifacts is a Go
\* map, and the loop ranges over it in an order the language leaves open,
\* so the stack artifact the loop meets first is any of them.
scanCdk(project) ==
    IF project.manifest = "missing" THEN { ScanResult("read-manifest", "") }
    ELSE IF project.manifest = "corrupt" THEN { ScanResult("parse-manifest", "") }
    ELSE IF StackArtifacts(project) = {} THEN { ScanResult("no-stack", "") }
    ELSE { templateOf(project, project.artifacts[i]) : i \in StackArtifacts(project) }

\* a Scan that reports an empty tree for a directory without cdk.out
ScanEmptyTree(project) ==
    IF project.cdkOut THEN scanCdk(project) ELSE { ScanResult("nil", "{}") }

\* IaCProvider.Scan: what it may return
Scan(project) ==
    IF project.cdkOut THEN scanCdk(project) ELSE { ScanResult("no-iac", "") }

\* CacheManager.Save: the cache file it writes
Save(tree) == [state |-> "ok", context |-> tree]

InitScan ==
    /\ IdleProtector
    /\ clients = [arch |-> NoClient, general |-> NoClient]
    /\ costFile = [state |-> "absent", usage |-> FreshUsage(0)]
    /\ today = 1
    /\ sent = NothingSent
    /\ call = NoCall
    /\ configModel = ""
    /\ procs = <<>>
    /\ trainer = <<>>
    /\ wait = <<>>
    /\ cache \in Caches

\* scanCmd on the project; writable: MkdirAll and WriteFile succeed
ScanCmd(project, writable) ==
    /\ \E r \in Scan(project) :
           /\ cache' = IF r.err.kind = "nil" /\ writable THEN Save(r.data) ELSE cache
           /\ call' = [op |-> "scan", project |-> project, err |-> r.err,
                       data |-> r.data, saved |-> r.err.kind = "nil" /\ writable]
    /\ UNCHANGED <<clients, costFile, today, sent, configModel, procs, trainer, wait>>
    /\ UNCHANGED protVars

NextScan == \E project \in Projects, writable \in BOOLEAN : ScanCmd(project, writable)

SpecScan == InitScan /\ [][NextScan]_vars

(***************************************************************************)
(* Two invocations at once on the cost file.  Each builds its client       *)
(* (NewCostManager loads the file), answers one question (TrackUsage adds  *)
(* the request in memory) and saves: SaveUsage hands the indented JSON of  *)
(* its record to os.WriteFile, which opens the file with O_TRUNC, writes   *)
(* the bytes at offset 0 and closes.  The steps of the two processes       *)
(* interleave; the file carries its bytes.                                 *)
(***************************************************************************)
Procs == {1, 2}

\* json.MarshalIndent(cm.CurrentUsage, "", "  "): the fields of CostTracker
\* in their order; a float64 is written with its shortest decimal, which for
\* the totals of RaceReplies is the exact amount without trailing zeros
MarshalIndent(usage) ==
    LET frac == SubSeq(Itoa(100000 + (usage.TotalCost % 100000)), 2, 6)
        last == CHOOSE k \in 0..5 :
                    /\ k = 0 \/ CharAt(frac, k) # "0"
                    /\ \A j \in (k + 1)..5 : CharAt(frac, j) = "0"
        total == Itoa(usage.TotalCost \div 100000)
                     \o (IF last = 0 THEN "" ELSE "." \o SubSeq(frac, 1, last))
        date == "2026-01-" \o (IF usage.Date < 10 THEN "0" ELSE "") \o Itoa(usage.Date)
    IN  "{\n  \"date\": \"" \o date \o "\",\n  \"total_cost\": " \o total
            \o ",\n  \"request_count\": " \o Itoa(usage.RequestCount)
            \o ",\n  \"tokens_used\": " \o Itoa(usage.TokensUsed) \o "\n}"

\* the file a reader finds when its bytes are content and usage is the record
\* last written: json.Unmarshal takes exactly the text of one record
FileOf(content, usage) ==
    [state |-> IF content = MarshalIndent(usage) THEN "ok" ELSE "corrupt",
     usage |-> usage, bytes |-> content]

\* the backend answers with 400 or with 1800 bytes
RaceReplies == { [ok |-> TRUE, len |-> 400], [ok |-> TRUE, len |-> 1800] }

InitRace ==
    /\ IdleProtector
    /\ clients = [arch |-> NoClient, general |-> NoClient]
    /\ costFile \in
          { [state |-> "absent", usage |-> FreshUsage(0), bytes |-> ""] } \cup
          { FileOf(MarshalIndent(r.client.costManager.CurrentUsage),
                   r.client.costManager.CurrentUsage) :
              r \in { Answer(AWSClientWith(DefaultDailyLimit, Haiku,
                                           FileOf("", FreshUsage(0)), 1),
                             "q", "{}", reply, FileOf("", FreshUsage(0))) :
                       reply \in RaceReplies } }
    /\ today = 1
    /\ sent = NothingSent
    /\ call = NoCall
    /\ configModel = ""
    /\ cache = NoCache
    /\ procs = [p \in Procs |-> [pc |-> "start", client |-> NoClient]]
    /\ trainer = <<>>
    /\ wait = <<>>

\* process p builds its client: NewCostManager reads the file
RaceNewClient(p) ==
    /\ procs[p].pc = "start"
    /\ procs' = [procs EXCEPT ![p] =
                    [pc |-> "loaded",
                     client |-> AWSClientWith(DefaultDailyLimit, Haiku, costFile, today)]]
    /\ UNCHANGED <<clients, costFile, today, sent, call, configModel, cache, trainer, wait>>
    /\ UNCHANGED protVars

\* process p's Client.Answer up to TrackUsage's call of SaveUsage
RaceAnswer(p, reply) ==
    /\ procs[p].pc = "loaded"
    /\ \E r \in {Answer(procs[p].client, "q", "{}", reply, costFile)} :
          /\ r.requested
          /\ procs' = [procs EXCEPT ![p] = [pc |-> "tracked", client |-> r.client]]
    /\ UNCHANGED <<clients, costFile, today, sent, call, configModel, cache, trainer, wait>>
    /\ UNCHANGED protVars

\* os.WriteFile of process p opens the file: O_TRUNC empties it
RaceOpenFile(p) ==
    /\ procs[p].pc = "tracked"
    /\ procs' = [procs EXCEPT ![p].pc = "opened"]
    /\ costFile' = FileOf("", FreshUsage(0))
    /\ UNCHANGED <<clients, today, sent, call, configModel, cache, trainer, wait>>
    /\ UNCHANGED protVars

\* os.WriteFile of process p writes its bytes at offset 0 and closes: bytes
\* another process wrote beyond them stay
RaceWrite(p) ==
    /\ procs[p].pc = "opened"
    /\ procs' = [procs EXCEPT ![p].pc = "done"]
    /\ \E data \in {MarshalIndent(procs[p].client.costManager.CurrentUsage)} :
          costFile' = FileOf(data \o SubSeq(costFile.bytes, Len(data) + 1,
                                            Len(costFile.bytes)),
                             procs[p].client.costManager.CurrentUsage)
    /\ call' = [op |-> "WriteFile", proc |-> p]
    /\ UNCHANGED <<clients, today, sent, configModel, cache, trainer, wait>>
    /\ UNCHANGED protVars

NextRace ==
    \/ \E p \in Procs : RaceNewClient(p)
    \/ \E p \in Procs, reply \in RaceReplies : RaceAnswer(p, reply)
    \/ \E p \in Procs : RaceOpenFile(p)
    \/ \E p \in Procs : RaceWrite(p)

SpecRace == InitRace /\ [][NextRace]_vars

(***************************************************************************)
(* One invocation of the query command, from what the process finds (env)  *)
(* to what the backend sends back (resp): kind is "ok" (an answer of len   *)
(* bytes), "transport" (the HTTP request fails), "status" (an HTTP error   *)
(* status with a JSON error body), "malformed" (a body that is not JSON)   *)
(* or "empty" (JSON without an answer).  The three functions below give    *)
(* what the backend call returns to Answer: ok (no error), the length of   *)
(* the response, and whether the error wraps a cause.                      *)
(***************************************************************************)
Responses ==
    { [kind |-> "ok", len |-> 400], [kind |-> "transport", len |-> 0],
      [kind |-> "status", len |-> 0], [kind |-> "malformed", len |-> 0],
      [kind |-> "empty", len |-> 0] }

\* AWSClient.Generate: InvokeModel and InvokeEndpoint give an error for a
\* failed request and for an error status; the parse error is wrapped
Generate(resp) ==
    IF resp.kind \in {"transport", "status", "malformed"}
    THEN [ok |-> FALSE, len |-> 0, wraps |-> TRUE]
    ELSE [ok |-> TRUE, len |-> resp.len, wraps |-> FALSE]

\* Client.answerWithOllama: the status of the response is not looked at
answerWithOllama(resp) ==
    IF resp.kind \in {"transport", "malformed"}
    THEN [ok |-> FALSE, len |-> 0, wraps |-> TRUE]
    ELSE [ok |-> TRUE, len |-> resp.len, wraps |-> FALSE]

\* Client.answerWithOpenAI: without choices err is nil and %w wraps nothing
answerWithOpenAI(resp) ==
    IF resp.kind \in {"transport", "status", "malformed"}
    THEN [ok |-> FALSE, len |-> 0, wraps |-> TRUE]
    ELSE IF resp.kind = "empty" THEN [ok |-> FALSE, len |-> 0, wraps |-> FALSE]
    ELSE [ok |-> TRUE, len |-> resp.len, wraps |-> FALSE]

\* the backend call of Client.Answer on a client of the given kind
BackendReply(backend, resp) ==
    IF backend = "aws" THEN Generate(resp)
    ELSE IF backend = "ollama" THEN answerWithOllama(resp)
    ELSE answerWithOpenAI(resp)

QueryEnvs ==
    { [BaseEnv EXCEPT !.modelType = modelType, !.cfgAwsType = "bedrock",
                      !.cfgModelID = Haiku, !.cfgOllamaName = cfgOllamaName,
                      !.awsLoads = awsLoads, !.envAwsType = envAwsType,
                      !.envModelID = Sonnet, !.ollamaUp = ollamaUp,
                      !.envOllamaModel = envOllamaModel, !.bestModel = bestModel,
                      !.openaiKey = openaiKey] :
        modelType \in {"", "aws", "ollama"}, cfgOllamaName \in {"", "llama3"},
        awsLoads \in BOOLEAN, envAwsType \in {"", "bedrock"}, ollamaUp \in BOOLEAN,
        envOllamaModel \in {"", "llama3"}, bestModel \in {"", "phi3"},
        openaiKey \in BOOLEAN }

InitQuery ==
    /\ IdleProtector
    /\ clients = [arch |-> NoClient, general |-> NoClient]
    /\ costFile = [state |-> "absent", usage |-> FreshUsage(0)]
    /\ today = 1
    /\ sent = NothingSent
    /\ \E env \in QueryEnvs : call = [op |-> "start", env |-> env]
    /\ configModel \in {"", "llama3"}
    /\ cache = [state |-> "ok", context |-> "{}"]
    /\ procs = <<>>
    /\ trainer = <<>>
    /\ wait = <<>>

\* the process runs runQuery once
Query(question, resp) ==
    /\ call.op = "start"
    /\ \E made \in {NewClient(call.env, configModel, costFile, today)} :
       \E reply \in {BackendReply(made.client.backend, resp)} :
       \E q \in {runQuery(question, cache, call.env, configModel, costFile, today,
                          [ok |-> reply.ok, len |-> reply.len])} :
           /\ configModel' = q.model
           /\ costFile' = q.file
           /\ sent' = IF q.requested THEN Send(q.backend, question, q.context) ELSE sent
           /\ call' = [op |-> "runQuery", env |-> call.env, model |-> configModel,
                       resp |-> resp, err |-> q.err, constructed |-> q.constructed,
                       backend |-> q.backend, requested |-> q.requested,
                       wraps |-> q.requested /\ reply.wraps, calls |-> q.calls]
    /\ UNCHANGED <<clients, today, cache, procs, trainer, wait>>
    /\ UNCHANGED protVars

NextQuery == \E question \in CostQuestions, resp \in Responses : Query(question, resp)

SpecQuery == InitQuery /\ [][NextQuery]_vars

(***************************************************************************)
(* Invocations of the query command one after another on one cost file,    *)
(* each with an AWS model of the config file.  call keeps the count, the   *)
(* cost and the tokens of the requests that succeeded.                     *)
(***************************************************************************)
InitDay ==
    /\ IdleProtector
    /\ clients = [arch |-> NoClient, general |-> NoClient]
    /\ costFile \in { [state |-> "absent", usage |-> FreshUsage(0)],
                      [state |-> "corrupt", usage |-> FreshUsage(0)],
                      [state |-> "ok", usage |-> FreshUsage(1)],
                      [state |-> "ok",
                       usage |-> [Date |-> 0, TotalCost |-> Dollars(1, 0),
                                  RequestCount |-> 1, TokensUsed |-> 1000]] }
    /\ today = 1
    /\ sent = NothingSent
    /\ call = [op |-> "start", invocations |-> 0, n |-> 0, cost |-> 0, tokens |-> 0]
    /\ configModel = ""
    /\ cache \in { [state |-> "ok", context |-> c] : c \in CostContexts }
    /\ procs = <<>>
    /\ trainer = <<>>
    /\ wait = <<>>

\* one invocation: the process starts, runs runQuery and exits
Invoke(question, modelID, dailyLimit, reply) ==
    /\ call.invocations < MaxInvocations
    /\ \E env \in { [BaseEnv EXCEPT !.modelType = "aws", !.cfgAwsType = "bedrock",
                                    !.cfgModelID = modelID,
                                    !.cfgDailyLimit = dailyLimit] } :
       \E q \in {runQuery(question, cache, env, configModel, costFile, today, reply)} :
       \E inputTokens \in {PromptLen(question, cache.context) \div CharsPerToken} :
       \E outputTokens \in {reply.len \div CharsPerToken} :
           /\ costFile' = q.file
           /\ configModel' = q.model
           /\ sent' = IF q.requested THEN Send(q.backend, question, q.context) ELSE sent
           /\ call' = IF q.requested /\ q.err.kind = "nil"
                      THEN [op |-> "runQuery", invocations |-> call.invocations + 1,
                            n |-> call.n + 1,
                            cost |-> call.cost
                                       + CalculateCost(inputTokens, outputTokens, modelID),
                            tokens |-> call.tokens + inputTokens + outputTokens]
                      ELSE [call EXCEPT !.op = "runQuery", !.invocations = @ + 1]
    /\ UNCHANGED <<clients, today, cache, procs, trainer, wait>>
    /\ UNCHANGED protVars

NextInvoke ==
    \E question \in CostQuestions, modelID \in {Haiku, Sonnet},
       dailyLimit \in DailyLimits, reply \in Replies :
        Invoke(question, modelID, dailyLimit, reply)

SpecDay == InitDay /\ [][NextInvoke]_vars

(***************************************************************************)
(* The training command: NewTrainingConfig calls as the clock runs, then   *)
(* TrainCustomModel with the last config, whose monitorTrainingJob polls   *)
(* the status of the SageMaker job while the job goes its way.             *)
(***************************************************************************)
\* time.Now().Format("2006-01-02-15-04-05") at second now of the run: the
\* layout ends with the second
Timestamp(now) == "2026-01-01-00-00-" \o (IF now < 10 THEN "0" ELSE "") \o Itoa(now)

\* NewTrainingConfig at second now: the fields that are not fixed defaults
NewTrainingConfig(trainingDataBucket, outputPath, now) ==
    [ ModelName |-> "cloudai-architecture-model-" \o Timestamp(now),
      TrainingJobName |-> "cloudai-training-job-" \o Timestamp(now),
      TrainingDataBucket |-> trainingDataBucket,
      OutputPath |-> outputPath ]

\* the statuses of a SageMaker training job
JobStatuses == {"InProgress", "Stopping", "Completed", "Failed", "Stopped"}

\* a pass of the loop that goes on polling after the job was stopped
monitorPassOverStopped(queryOk, status) ==
    IF ~queryOk THEN [pc |-> "returned", err |-> "describe"]
    ELSE IF status = "Completed" THEN [pc |-> "returned", err |-> "nil"]
    ELSE IF status = "Failed" THEN [pc |-> "returned", err |-> "failed"]
    ELSE [pc |-> "sleeping", err |-> "nil"]

\* one pass of monitorTrainingJob's loop when DescribeTrainingJob succeeds
\* or not (queryOk) and the job has the given status: where the function
\* is afterwards and the error it returns
monitorPass(queryOk, status) ==
    IF ~queryOk THEN [pc |-> "returned", err |-> "describe"]
    ELSE IF status = "Completed" THEN [pc |-> "returned", err |-> "nil"]
    ELSE IF status = "Failed" THEN [pc |-> "returned", err |-> "failed"]
    ELSE IF status = "Stopped" THEN [pc |-> "returned", err |-> "stopped"]
    ELSE [pc |-> "sleeping", err |-> "nil"]

InitTraining ==
    /\ IdleProtector
    /\ clients = [arch |-> NoClient, general |-> NoClient]
    /\ costFile = [state |-> "absent", usage |-> FreshUsage(0)]
    /\ today = 1
    /\ sent = NothingSent
    /\ call = NoCall
    /\ configModel = ""
    /\ cache = NoCache
    /\ procs = <<>>
    /\ wait = <<>>
    /\ trainer = [now |-> 0, configs |-> <<>>, pc |-> "idle", status |-> "none",
                  observed |-> "none", slept |-> FALSE, err |-> "nil"]

\* a second passes
Tick ==
    /\ trainer.now < MaxNow
    /\ trainer' = [trainer EXCEPT !.now = @ + 1]
    /\ UNCHANGED <<clients, costFile, today, sent, call, configModel, cache, procs, wait>>
    /\ UNCHANGED protVars

NewTrainingConfigCall(trainingDataBucket, outputPath) ==
    /\ trainer.pc = "idle"
    /\ Len(trainer.configs) < MaxConfigs
    /\ trainer' = [trainer EXCEPT !.configs =
                       Append(@, NewTrainingConfig(trainingDataBucket, outputPath,
                                                   trainer.now))]
    /\ UNCHANGED <<clients, costFile, today, sent, call, configModel, cache, procs, wait>>
    /\ UNCHANGED protVars

\* TrainCustomModel up to its call of monitorTrainingJob: the upload of the
\* training data and CreateTrainingJob succeed or not
TrainCustomModel(uploaded, created) ==
    /\ trainer.pc = "idle"
    /\ trainer.configs # <<>>
    /\ trainer' = IF ~uploaded THEN [trainer EXCEPT !.pc = "returned", !.err = "prepare"]
                  ELSE IF ~created THEN [trainer EXCEPT !.pc = "returned", !.err = "create"]
                  ELSE [trainer EXCEPT !.pc = "monitoring", !.status = "InProgress"]
    /\ UNCHANGED <<clients, costFile, today, sent, call, configModel, cache, procs, wait>>
    /\ UNCHANGED protVars

\* monitorTrainingJob asks for the status
Poll(queryOk) ==
    /\ trainer.pc = "monitoring"
    /\ \E r \in {monitorPass(queryOk, trainer.status)} :
          trainer' = [trainer EXCEPT !.pc = r.pc, !.err = r.err,
                         !.observed = IF queryOk THEN trainer.status ELSE "error"]
    /\ UNCHANGED <<clients, costFile, today, sent, call, configModel, cache, procs, wait>>
    /\ UNCHANGED protVars

\* time.Sleep(30 * time.Second) is over
Sleep ==
    /\ trainer.pc = "sleeping"
    /\ trainer' = [trainer EXCEPT !.pc = "monitoring", !.slept = TRUE]
    /\ UNCHANGED <<clients, costFile, today, sent, call, configModel, cache, procs, wait>>
    /\ UNCHANGED protVars

\* SageMaker moves the job on
JobAdvance(status) ==
    /\ \/ trainer.status = "InProgress" /\ status \in {"Stopping", "Completed", "Failed"}
       \/ trainer.status = "Stopping" /\ status = "Stopped"
    /\ trainer' = [trainer EXCEPT !.status = status]
    /\ UNCHANGED <<clients, costFile, today, sent, call, configModel, cache, procs, wait>>
    /\ UNCHANGED protVars

NextTraining ==
    \/ Tick
    \/ \E bucket \in {"b"}, outputPath \in {"s3://b/out/"} :
          NewTrainingConfigCall(bucket, outputPath)
    \/ \E uploaded \in BOOLEAN, created \in BOOLEAN : TrainCustomModel(uploaded, created)
    \/ \E queryOk \in BOOLEAN : Poll(queryOk)
    \/ Sleep
    \/ \E status \in JobStatuses : JobAdvance(status)

SpecTraining == InitTraining /\ [][NextTraining]_vars

\* the loop goes on: the status is asked for and the sleep ends; and the
\* job does not stay in progress or stopping for ever
SpecTrainingFair ==
    /\ SpecTraining
    /\ WF_vars(\E queryOk \in BOOLEAN : Poll(queryOk))
    /\ WF_vars(Sleep)
    /\ WF_vars(\E status \in JobStatuses : JobAdvance(status))

(***************************************************************************)
(* waitForModelAccess: on every tick of its 5 s ticker it counts an        *)
(* attempt and looks for an accessible Bedrock model; its select also      *)
(* takes the context's Done channel.  The account's model access and the   *)
(* context change while it waits.                                          *)
(***************************************************************************)
maxAttempts == 60

testModels == <<Haiku, Sonnet, Titan, Llama>>

\* findAvailableBedrockModel when access is the set of models InvokeModel
\* succeeds for; with a cancelled context every InvokeModel fails
findAvailableBedrockModel(access, cancelled) ==
    IF cancelled \/ \A i \in 1..Len(testModels) : testModels[i] \notin access THEN ""
    ELSE testModels[CHOOSE i \in 1..Len(testModels) :
                        /\ testModels[i] \in access
                        /\ \A j \in 1..(i - 1) : testModels[j] \notin access]

\* a pass that gives up only after one attempt more
waitPassLate(attempts, availableModel) ==
    IF availableModel # "" THEN [pc |-> "returned", err |-> "nil"]
    ELSE IF attempts > maxAttempts THEN [pc |-> "returned", err |-> "timeout"]
    ELSE [pc |-> "waiting", err |-> "nil"]

\* the ticker case of the loop after attempts++, when the search gave
\* availableModel: where the function is afterwards and what it returns
waitPass(attempts, availableModel) ==
    IF availableModel # "" THEN [pc |-> "returned", err |-> "nil"]
    ELSE IF attempts >= maxAttempts THEN [pc |-> "returned", err |-> "timeout"]
    ELSE [pc |-> "waiting", err |-> "nil"]

InitWait ==
    /\ IdleProtector
    /\ clients = [arch |-> NoClient, general |-> NoClient]
    /\ costFile = [state |-> "absent", usage |-> FreshUsage(0)]
    /\ today = 1
    /\ sent = NothingSent
    /\ call = NoCall
    /\ configModel = ""
    /\ cache = NoCache
    /\ procs = <<>>
    /\ trainer = <<>>
    /\ wait = [pc |-> "waiting", attempts |-> 0, cancelled |-> FALSE, access |-> {},
               found |-> "", err |-> "nil"]

\* case <-ticker.C
WaitTick ==
    /\ wait.pc = "waiting"
    /\ \E availableModel \in {findAvailableBedrockModel(wait.access, wait.cancelled)} :
       \E r \in {waitPass(wait.attempts + 1, availableModel)} :
          wait' = [wait EXCEPT !.attempts = @ + 1, !.found = availableModel,
                               !.pc = r.pc, !.err = r.err]
    /\ UNCHANGED <<clients, costFile, today, sent, call, configModel, cache, procs, trainer>>
    /\ UNCHANGED protVars

\* case <-ctx.Done()
WaitDone ==
    /\ wait.pc = "waiting"
    /\ wait.cancelled
    /\ wait' = [wait EXCEPT !.pc = "returned", !.err = "ctx"]
    /\ UNCHANGED <<clients, costFile, today, sent, call, configModel, cache, procs, trainer>>
    /\ UNCHANGED protVars

\* the caller cancels the context
Cancel ==
    /\ wait.pc = "waiting"
    /\ ~wait.cancelled
    /\ wait' = [wait EXCEPT !.cancelled = TRUE]
    /\ UNCHANGED <<clients, costFile, today, sent, call, configModel, cache, procs, trainer>>
    /\ UNCHANGED protVars

\* access to a model is granted in the AWS console
Grant(modelID) ==
    /\ wait.pc = "waiting"
    /\ modelID \notin wait.access
    /\ wait' = [wait EXCEPT !.access = @ \cup {modelID}]
    /\ UNCHANGED <<clients, costFile, today, sent, call, configModel, cache, procs, trainer>>
    /\ UNCHANGED protVars

NextWait ==
    \/ WaitTick
    \/ WaitDone
    \/ Cancel
    \/ \E modelID \in {Sonnet, Titan} : Grant(modelID)

SpecWait == InitWait /\ [][NextWait]_vars

\* the ticker goes on ticking, and a select with a ready case takes one
SpecWaitFair == SpecWait /\ WF_vars(WaitTick)

(***************************************************************************)
(* Properties of the DataProtector (SpecProtector).                        *)
(***************************************************************************)
\* the text t holds, as literal text, a placeholder the protector p knows
HoldsPlaceholder(p, t) == \E k \in DOMAIN p.replacements : Contains(t, k)

\* twelve digits start at position i of s
TwelveDigitsAt(s, i) ==
    i + AccountIdLen - 1 <= Len(s) /\ AllIn(s, i, i + AccountIdLen - 1, Digits)

\* every occurrence of d in s has a word boundary on both sides
StandsAlone(s, d) ==
    \A j \in 1..Len(s) :
        HasPrefixAt(s, j, d) => WordBoundary(s, j) /\ WordBoundary(s, j + Len(d))

\* C1 as stated: Unscrub of the output of Scrub, on the same DataProtector,
\* returns exactly the text that was given to Scrub.
C1_RoundTripAnyText == pc.op = "Unscrub" => restored = text

\* C1 amended: when the text given to Scrub holds none of the protector's
\* placeholders as literal text, Unscrub of the output of Scrub returns
\* exactly that text.
C1_RoundTrip ==
    (pc.op = "Unscrub" /\ ~HoldsPlaceholder(protector, text)) => restored = text

\* a round trip of a text in which Scrub did replace something
C1_Witness ==
    /\ pc.op = "Unscrub"
    /\ ~HoldsPlaceholder(protector, text)
    /\ scrubbed # text
    /\ restored = text

\* C2 as stated: no 12-digit sequence of the text given to Scrub occurs in
\* the text Scrub returns.
C2_NoTwelveDigitsAnyText ==
    pc.op = "Scrub" =>
        \A i \in 1..Len(text) :
            TwelveDigitsAt(text, i) =>
                ~Contains(scrubbed, SubSeq(text, i, i + AccountIdLen - 1))

\* C2 amended: a 12-digit sequence of the text given to Scrub, all of whose
\* occurrences in that text stand between word boundaries, does not occur in
\* the text Scrub returns.
C2_NoTwelveDigits ==
    pc.op = "Scrub" =>
        \A i \in 1..Len(text) :
            LET d == SubSeq(text, i, i + AccountIdLen - 1)
            IN  (TwelveDigitsAt(text, i) /\ StandsAlone(text, d))
                    => ~Contains(scrubbed, d)

\* Scrub was given a text with a free-standing 12-digit sequence and
\* returned a text with an ACCOUNT_ID placeholder in its place
C2_Witness ==
    /\ pc.op = "Scrub"
    /\ \E i \in 1..Len(text) :
          LET d == SubSeq(text, i, i + AccountIdLen - 1)
          IN  /\ TwelveDigitsAt(text, i)
              /\ StandsAlone(text, d)
              /\ ~Contains(scrubbed, d)
    /\ Contains(scrubbed, "[[ACCOUNT_ID_")

(***************************************************************************)
(* Properties of the cost governor (SpecCost).                             *)
(***************************************************************************)
\* the usage record of the process's client
Usage == clients.general.costManager.CurrentUsage

\* this step is a call of Client.Answer
AnswerStep == call' # call /\ call'.op = "Answer"

\* the estimate Client.Answer makes for the call recorded in call'
EstimateOfCall ==
    estimateRequestCost(clients.general, PromptLen(call'.question, call'.context))

\* C4 as stated: after Answer requests through an AWS backend the recorded
\* total cost of the day does not exceed the daily limit.
C4_TotalWithinLimit ==
    (call.op = "Answer" /\ clients.general.backend = "aws") =>
        /\ Usage.TotalCost <= clients.general.costManager.DailyLimit
        /\ costFile.state = "ok" =>
               costFile.usage.TotalCost <= clients.general.costManager.DailyLimit

\* C5: Client.Answer refuses a request exactly when the day's running total
\* plus the estimated cost exceeds the daily limit, and the error of a
\* refused request reports the remaining budget and the estimated cost; with
\* a limit of 5.00 and no usage, 0.01 is permitted and 6.00 is refused.
C5_PreFlight ==
    /\ LET cm == NewCostManager(Dollars(5, 0), [state |-> "absent", usage |-> FreshUsage(0)], 1)
       IN  CanMakeRequest(cm, Dollars(0, 1)) /\ ~CanMakeRequest(cm, Dollars(6, 0))
    /\ [][ AnswerStep =>
             LET cm == clients.general.costManager
                 refused == call'.err.kind = "budget"
             IN  /\ refused <=>
                       ~(cm.CurrentUsage.TotalCost + EstimateOfCall <= cm.DailyLimit)
                 /\ refused =>
                       /\ call'.err.remaining =
                              RoundCents(cm.DailyLimit - cm.CurrentUsage.TotalCost)
                       /\ call'.err.estimated = RoundCents(EstimateOfCall) ]_vars

\* a request refused because of what earlier requests of the day have cost
C5_Witness ==
    /\ call.op = "Answer"
    /\ call.err.kind = "budget"
    /\ Usage.RequestCount > 0
    /\ call.err.estimated <= Dollars(5, 0) \div 1000

\* C6: a request refused by the budget check is not handed to the backend
\* and leaves the usage record, in memory and on file, as it was.
C6_RefusedChangesNothing ==
    [][ ( /\ AnswerStep
          /\ clients.general.backend = "aws"
          /\ Usage.TotalCost + EstimateOfCall > clients.general.costManager.DailyLimit ) =>
            /\ call'.err.kind = "budget"
            /\ sent' = sent
            /\ clients' = clients
            /\ costFile' = costFile ]_vars

\* a request refused before anything was ever sent
C6_Witness ==
    /\ call.op = "Answer"
    /\ call.err.kind = "budget"
    /\ sent.n = 0

C8_LoadResetsOnNewDay ==
    (call.op = "NewCostManager" /\ costFile.state = "ok") =>
        IF costFile.usage.Date # today
        THEN Usage = [Date |-> today, TotalCost |-> 0, RequestCount |-> 0, TokensUsed |-> 0]
        ELSE Usage = costFile.usage

\* a load, on the next day, of a record that holds requests
C8_Witness ==
    /\ call.op = "NewCostManager"
    /\ costFile.state = "ok"
    /\ costFile.usage.Date # today
    /\ costFile.usage.RequestCount > 0
    /\ Usage.RequestCount = 0

(***************************************************************************)
(* Properties of question answering (SpecAnswer).                          *)
(***************************************************************************)
\* the lowercased question holds one of the domain keywords
HasDomainKeyword(question) ==
    \E kw \in { archKeywords[i] : i \in 1..Len(archKeywords) } :
        Contains(ToLower(question), kw)

\* C3 as stated: whenever a question-answering call hands a request to a
\* model backend, the question and the context of that request are what
\* Scrub returns for the question and the context of the call.
C3_OnlyRedactedTextLeaves ==
    [][ sent'.n # sent.n =>
            LET q == Scrub(protector, call'.question)
                x == Scrub(q.p, call'.context)
            IN  /\ sent'.question = q.out
                /\ sent'.context = x.out ]_vars

\* C9: a Router without an arch client chooses the general client for every
\* question.
C9_NoArchClientMeansGeneral ==
    (call.op = "Router.Answer" /\ clients.arch.backend = "nil") => call.chosen = "general"

\* a question with a domain keyword, answered by the general client because
\* there is no arch client
C9_Witness ==
    /\ call.op = "Router.Answer"
    /\ clients.arch.backend = "nil"
    /\ HasDomainKeyword(call.question)
    /\ call.chosen = "general"

\* C10: a Router with an arch client chooses it exactly for the questions
\* whose lowercased text holds a domain keyword, and the general client for
\* the others.
C10_KeywordRouting ==
    (call.op = "Router.Answer" /\ clients.arch.backend # "nil") =>
        /\ HasDomainKeyword(call.question) => call.chosen = "arch"
        /\ ~HasDomainKeyword(call.question) => call.chosen = "general"

\* a question whose keyword is inside the text and in upper case went to the
\* arch client
C10_Witness ==
    /\ call.op = "Router.Answer"
    /\ clients.arch.backend # "nil"
    /\ call.question = "My LAMBDA"
    /\ call.chosen = "arch"
    /\ sent.backend = "aws"

(***************************************************************************)
(* Properties of model selection (SpecSelect).                             *)
(***************************************************************************)
\* the models whose reference request costs at most a tenth of the budget
WithinTenth(dailyBudget) ==
    { ModelCosts[i] : i \in { j \in 1..Len(ModelCosts) :
          estimatedCostOf(ModelCosts[j]) * RequestsPerDay <= dailyBudget } }

\* no model of the set comes before m in the ordering
Foremost(m, models, prioritizeSpeed) ==
    \A o \in models :
        IF prioritizeSpeed
        THEN m.Speed > o.Speed \/ (m.Speed = o.Speed /\ m.Quality >= o.Quality)
        ELSE m.Quality > o.Quality \/ (m.Quality = o.Quality /\ m.Speed >= o.Speed)

\* C11: with prioritizeSpeed and several affordable models, the model
\* returned is affordable and has the highest speed among the affordable
\* ones, and the highest quality among those of that speed.
C11_FastestAffordable ==
    (/\ call.op = "SelectBestAWSModel"
     /\ call.prioritizeSpeed
     /\ Cardinality(WithinTenth(call.dailyBudget)) >= 2) =>
        /\ call.bestModel \in WithinTenth(call.dailyBudget)
        /\ Foremost(call.bestModel, WithinTenth(call.dailyBudget), TRUE)

\* three models are affordable and the one of speed 9 is returned
C11_Witness ==
    /\ call.op = "SelectBestAWSModel"
    /\ call.prioritizeSpeed
    /\ Cardinality(WithinTenth(call.dailyBudget)) = 3
    /\ call.bestModel.Speed = 9

\* C12 as stated: Haiku is returned whenever its reference request costs
\* at most a tenth of the budget; otherwise, when some model's does, the
\* model returned is one of those, the foremost in the chosen ordering.
C12_DefaultThenOrdering ==
    call.op = "SelectBestAWSModel" =>
        LET affordable == WithinTenth(call.dailyBudget)
            haiku == ModelCosts[FirstModelIndex(Haiku)]
        IN  /\ haiku \in affordable => call.bestModel = haiku
            /\ (haiku \notin affordable /\ affordable # {}) =>
                   /\ call.bestModel \in affordable
                   /\ Foremost(call.bestModel, affordable, call.prioritizeSpeed)

\* C27: with the built-in model table, SelectBestAWSModel returns for every
\* budget the same model whether prioritizeSpeed is set or not.
C27_FlagHasNoEffect ==
    call.op = "SelectBestAWSModel" =>
        call.bestModel = SelectBestAWSModel(call.dailyBudget, ~call.prioritizeSpeed)

\* C27 witness: quality is preferred and all four models are affordable,
\* and the model returned is not the one of the highest quality.
C27_Witness ==
    /\ call.op = "SelectBestAWSModel"
    /\ ~call.prioritizeSpeed
    /\ Cardinality(WithinTenth(call.dailyBudget)) = 4
    /\ \E m \in WithinTenth(call.dailyBudget) : m.Quality > call.bestModel.Quality

(***************************************************************************)
(* Properties of runQuery (SpecAnswer).                                    *)
(***************************************************************************)
\* C15: when the project's cache file is missing or cannot be parsed, a
\* runQuery call ends with the cache error, and it has built no client,
\* handed no request to a backend, and left the configuration and the cost
\* file as they were.
C15_NoCacheNoBackend ==
    [][ (call'.n # call.n /\ call'.op = "runQuery" /\ cache.state # "ok") =>
            /\ call'.err.kind = "cache"
            /\ ~call'.constructed
            /\ sent' = sent
            /\ configModel' = configModel
            /\ costFile' = costFile ]_vars

\* runQuery has ended on a cache file that does not parse
C15_Witness ==
    /\ call.op = "runQuery"
    /\ cache.state = "corrupt"
    /\ call.err.kind = "cache"
    /\ sent.n = 0

FirstStackArtifact(project) ==
    project.artifacts[CHOOSE i \in StackArtifacts(project) :
                          \A j \in StackArtifacts(project) : i <= j]

\* C14 as stated: a scan of a manifest with stack artifacts returns what
\* reading the template of the first of them gives.
C14_FirstStackTemplate ==
    (/\ call.op = "scan"
     /\ call.project.cdkOut
     /\ call.project.manifest = "ok"
     /\ StackArtifacts(call.project) # {}) =>
        [err |-> call.err, data |-> call.data]
            = templateOf(call.project, FirstStackArtifact(call.project))

(***************************************************************************)
(* Properties of the placeholders (SpecProtector).                         *)
(***************************************************************************)
\* the indices n for which k is the placeholder of some category
IndicesOf(k, limit) ==
    { n \in 0..limit : \E i \in 1..Len(Patterns) :
          k = "[[" \o Patterns[i] \o "_" \o Itoa(n) \o "]]" }

\* the keys a step adds to the map
NewKeys == (DOMAIN protector'.replacements) \ (DOMAIN protector.replacements)

\* C16: the placeholders a Scrub call allocates carry the indices from the
\* protector's counter upwards, one index for each allocation and one key
\* for each index, all of them above the indices of the keys allocated
\* before; no earlier key is touched.
C16_IndicesIncrease ==
    [][ protector' # protector =>
            /\ \A k \in DOMAIN protector.replacements :
                   /\ \A n \in IndicesOf(k, protector'.nextIndex) : n < protector.nextIndex
                   /\ k \in DOMAIN protector'.replacements
                   /\ protector'.replacements[k] = protector.replacements[k]
            /\ \A k \in NewKeys :
                   /\ Cardinality(IndicesOf(k, protector'.nextIndex)) = 1
                   /\ \A n \in IndicesOf(k, protector'.nextIndex) :
                          protector.nextIndex <= n /\ n < protector'.nextIndex
            /\ Cardinality(NewKeys) = protector'.nextIndex - protector.nextIndex
            /\ \A k1, k2 \in NewKeys :
                   k1 # k2 => IndicesOf(k1, protector'.nextIndex)
                                  # IndicesOf(k2, protector'.nextIndex) ]_vars

\* two Scrub calls have allocated placeholders of two categories, the
\* second call continuing where the first stopped
C16_Witness ==
    /\ pc.scrubs = 2
    /\ protector.nextIndex = 5
    /\ "[[ACCOUNT_ID_1]]" \in DOMAIN protector.replacements
    /\ "[[IP_2]]" \in DOMAIN protector.replacements
    /\ "[[ARN_3]]" \in DOMAIN protector.replacements
    /\ "[[ARN_4]]" \in DOMAIN protector.replacements

\* the ARN matches <<start, end>> of s
ArnMatches(s) ==
    LET found == FindAllStringIndex("ARN", s) IN { found[i] : i \in 1..Len(found) }

\* the 12-digit sequences that stand inside the part m of s
EmbeddedAccountIds(s, m) ==
    { SubSeq(s, i, i + AccountIdLen - 1) :
          i \in { j \in m[1]..(m[2] - AccountIdLen + 1) : TwelveDigitsAt(s, j) } }

\* every occurrence of d in s lies inside an ARN match
OnlyInsideArns(s, d) ==
    \A j \in 1..Len(s) :
        HasPrefixAt(s, j, d) =>
            \E m \in ArnMatches(s) : m[1] <= j /\ j + Len(d) - 1 <= m[2]

\* C17: when the text given to Scrub holds an ARN with a 12-digit account
\* number inside it, the call allocates one ARN placeholder for the whole
\* ARN, and no placeholder for the account number when that number stands
\* nowhere else in the text.
C17_ArnMaskedWhole ==
    [][ pc'.scrubs # pc.scrubs =>
            \A m \in ArnMatches(text') :
                \A d \in EmbeddedAccountIds(text', m) :
                    /\ \E k \in NewKeys :
                           /\ IndicesOf(k, protector'.nextIndex) # {}
                           /\ HasPrefixAt(k, 1, "[[ARN_")
                           /\ protector'.replacements[k] = SubSeq(text', m[1], m[2])
                    /\ OnlyInsideArns(text', d) =>
                           /\ ~Contains(scrubbed', d)
                           /\ \A k \in NewKeys : protector'.replacements[k] # d ]_vars

\* one Scrub call has masked an ARN with its account number as a whole, and
\* an account number outside the ARN on its own
C17_Witness ==
    /\ pc.op = "Scrub"
    /\ pc.scrubs = 1
    /\ text = "arn:a:123456789012 210987654321"
    /\ scrubbed = "[[ARN_1]] [[ACCOUNT_ID_2]]"
    /\ protector.replacements["[[ARN_1]]"] = "arn:a:123456789012"
    /\ protector.replacements["[[ACCOUNT_ID_2]]"] = "210987654321"
    /\ protector.nextIndex = 3

(***************************************************************************)
(* Properties of the Router over several calls (SpecRouter).               *)
(***************************************************************************)
\* C18 as stated: an Answer call on a Router whose earlier call returned
\* its de-redacted response starts with a redaction map that holds nothing.
C18_MapDiscardedAfterAnswer ==
    [][ (call'.n # call.n /\ call.op = "Router.Answer" /\ call.err.kind = "nil") =>
            DOMAIN protector.replacements = {} ]_vars

\* the CostManager instances of the clients of the process
CostManagers == { c \in DOMAIN clients : clients[c].hasCostManager }

\* C20 as stated: when a call of the process has written the cost file, the
\* clients of the process hold at most one CostManager.
C20_OneCostManager ==
    (call.op = "Router.Answer" /\ costFile.state = "ok") => Cardinality(CostManagers) <= 1

(***************************************************************************)
(* Properties of the persisted files (SpecAnswer).                         *)
(***************************************************************************)
UsageFields == { "Date", "TotalCost", "RequestCount", "TokensUsed" }

\* C19: the cost file holds a usage record of four numbers and nothing
\* else, and no placeholder of the redaction map stands in the cache file
\* or in the configuration file.
C19_MappingNotPersisted ==
    /\ costFile.state = "ok" =>
           /\ DOMAIN costFile.usage = UsageFields
           /\ \A f \in UsageFields : costFile.usage[f] \in Nat
    /\ \A k \in DOMAIN protector.replacements :
           /\ ~Contains(configModel, k)
           /\ ~Contains(cache.context, k)

\* a Router.Answer call that built a redaction map has written the cost file
C19_Witness ==
    /\ call.op = "Router.Answer"
    /\ DOMAIN protector.replacements # {}
    /\ costFile.state = "ok"
    /\ costFile.usage.RequestCount = 1

(***************************************************************************)
(* Properties of two concurrent invocations (SpecRace).                    *)
(***************************************************************************)
\* C21: when two invocations that ran at once on the cost file have both
\* saved, the file holds the record of the invocation that wrote last.
C21_LastWriteWins ==
    (procs # <<>> /\ \A p \in Procs : procs[p].pc = "done") =>
        /\ costFile.state = "ok"
        /\ costFile.usage = procs[call.proc].client.costManager.CurrentUsage


(***************************************************************************)
(* Properties of one invocation of the query command (SpecQuery).          *)
(***************************************************************************)
\* the backend NewClient settles on before it constructs anything
SelectedBackend(env) ==
    IF env.modelType \in {"aws", "ollama"} THEN env.modelType
    ELSE IF env.envAwsType # "" THEN "aws"
    ELSE IF env.ollamaUp THEN "ollama"
    ELSE IF env.openaiKey THEN "openai"
    ELSE "none"

\* the construction of the selected backend fails: the configured Ollama
\* server is not reachable, the AWS client cannot be created, or the
\* automatic selection of an Ollama model fails
ConstructionFails(env, model) ==
    \/ SelectedBackend(env) = "aws" /\ ~env.awsLoads
    \/ env.modelType = "ollama" /\ ~env.ollamaUp
    \/ /\ env.modelType = "" /\ SelectedBackend(env) = "ollama"
       /\ env.envOllamaModel = "" /\ model = "" /\ env.bestModel = ""

\* C22: when the construction of the selected backend fails, NewClient
\* returns an error, no client is made, nothing is asked, and no request
\* went to another backend.
C22_FailedConstructionIsFatal ==
    (call.op = "runQuery" /\ ConstructionFails(call.env, call.model)) =>
        /\ call.err.kind = "client"
        /\ ~call.constructed
        /\ ~call.requested
        /\ \A i \in DOMAIN call.calls : call.calls[i].to = SelectedBackend(call.env)

\* C22 witness: the configured Ollama server is down while an OpenAI key is
\* set, and the invocation ended with the construction error.
C22_Witness ==
    /\ call.op = "runQuery"
    /\ call.env.modelType = "ollama" /\ call.env.cfgOllamaName # ""
    /\ ~call.env.ollamaUp /\ call.env.openaiKey
    /\ call.err.kind = "client"

\* the calls of a given request among the network calls of the invocation
CallsOf(request) == { i \in DOMAIN call.calls : call.calls[i].request = request }

\* C23 as stated: one invocation issues at most one network call, those of
\* the construction of the client included.
C23_AtMostOneCall == call.op = "runQuery" => Len(call.calls) <= 1

\* C23 amended: one invocation sends at most one answering request; the
\* construction of the client adds at most two GET /api/tags requests to
\* the Ollama server, and none when an AWS model is selected.
C23_OneAnswerCall ==
    call.op = "runQuery" =>
        /\ Cardinality(CallsOf("answer")) <= 1
        /\ Cardinality(CallsOf("GET /api/tags")) <= 2
        /\ CallsOf("answer") \cup CallsOf("GET /api/tags") = DOMAIN call.calls
        /\ SelectedBackend(call.env) = "aws" => CallsOf("GET /api/tags") = {}

\* C23 witness: an invocation that selected an Ollama model by itself and
\* asked it made three calls.
C23_Witness ==
    /\ call.op = "runQuery" /\ call.requested /\ call.backend = "ollama"
    /\ Len(call.calls) = 3

\* C24: a backend request that fails (HTTP failure or malformed response)
\* ends Answer with an error that wraps the cause, after one request.
C24_FailureIsWrappedError ==
    ( /\ call.op = "runQuery" /\ call.requested
      /\ call.resp.kind \in {"transport", "status", "malformed"} ) =>
        /\ call.err.kind = "backend"
        /\ call.wraps
        /\ Cardinality(CallsOf("answer")) = 1

\* C25: the client NewClient gives is of the backend the precedence names
\* (config type aws or ollama, then an AWS model of the environment, then a
\* reachable Ollama server, then OpenAI with a key), it is of one backend,
\* and when none applies NewClient returns an error.
C25_Precedence ==
    call.op = "runQuery" =>
        /\ call.constructed =>
              /\ call.backend = SelectedBackend(call.env)
              /\ call.backend \in {"aws", "ollama", "openai"}
        /\ ~call.constructed => call.err.kind = "client"
        /\ SelectedBackend(call.env) = "none" => ~call.constructed
        /\ (SelectedBackend(call.env) # "none"
                /\ ~ConstructionFails(call.env, call.model)
                /\ ~(call.env.modelType = "ollama" /\ call.env.cfgOllamaName = ""))
              => call.constructed

\* C25 witness: with the config type ollama, Ollama is used although an AWS
\* model is in the environment and an OpenAI key is set.
C25_Witness ==
    /\ call.op = "runQuery" /\ call.constructed /\ call.backend = "ollama"
    /\ call.env.openaiKey
    /\ call.env.modelType = "ollama" /\ call.env.envAwsType # ""


(***************************************************************************)
(* Properties of the training command (SpecTraining).                      *)
(***************************************************************************)
\* C26: any two NewTrainingConfig calls give different ModelName and
\* different TrainingJobName.
C26_NamesDiffer ==
    trainer # <<>> =>
        \A i, j \in DOMAIN trainer.configs :
            i # j => /\ trainer.configs[i].ModelName # trainer.configs[j].ModelName
                     /\ trainer.configs[i].TrainingJobName
                            # trainer.configs[j].TrainingJobName


C30_MonitorTerminates ==
    /\ (trainer.pc = "monitoring") ~> (trainer.pc = "returned")
    /\ []((trainer.pc = "returned" /\ trainer.observed # "none") =>
             /\ trainer.observed \in {"Completed", "Failed", "Stopped", "error"}
             /\ trainer.err = "nil" <=> trainer.observed = "Completed")
    /\ [](trainer.pc = "sleeping" => trainer.observed \in {"InProgress", "Stopping"})
    /\ []((trainer.pc = "monitoring" /\ trainer.observed # "none") =>
             trainer.observed \in {"InProgress", "Stopping"})

\* C30 witness: the monitor slept at least once and returned the error of a
\* stopped job.
C30_Witness ==
    /\ trainer # <<>>
    /\ trainer.pc = "returned" /\ trainer.slept
    /\ trainer.observed = "Stopped" /\ trainer.err = "stopped"


====
